---- MODULE Spec2Model ----
(***************************************************************************)
(* quotes-exporter: the collector (newCollector, collector.Collect), the   *)
(* memoized fetcher it calls (cache.Memoize of go-memoize: a go-cache      *)
(* store in front of a singleflight group) and the twelvedata provider.    *)
(*                                                                         *)
(* Strings that the code takes apart (query values, symbols, the price     *)
(* field) are sequences of one-character strings: "A,B" is <<"A",",","B">> *)
(* and the empty string is << >>.                                          *)
(***************************************************************************)
EXTENDS Integers, Sequences, FiniteSets, TLC

\* ------------------------------------------------------------------ bounds
\* Scrape requests served in one behaviour.
MaxScrapes == 2
\* The clock stops advancing here (minutes).
MaxTime == 11

\* ------------------------------------------------------- program constants
\* memoize.NewMemoizer(10*time.Minute, 20*time.Minute): minutes an entry
\* stays valid after it is stored.
DefaultExpiration == 10

\* Goroutines of the HTTP server that serve scrape requests.
Handlers == {"h1", "h2"}

Rank(p) == IF p = "h1" THEN 1 ELSE 2

\* Minutes by which one step of the clock advances it: up to the last minute
\* of the freshness window of what was stored before, or just past it.
TickSteps == {10, 11}

\* ----------------------------------------------------------------- values
\* Go's nil error.
NoErr == "nil"
\* interface{} values returned by the fetcher: nil, or a float64.
NilValue == [t |-> "nil"]
Float(v) == [t |-> "float64", v |-> v]

Digits == <<"0", "1", "2", "3", "4", "5", "6", "7", "8", "9">>

DigitValue(c) == (CHOOSE i \in 1..10 : Digits[i] = c) - 1

IsDigit(c) == \E i \in 1..10 : Digits[i] = c

RECURSIVE DecimalValue(_)
DecimalValue(s) ==
    IF s = << >> THEN 0
    ELSE 10 * DecimalValue(SubSeq(s, 1, Len(s) - 1)) + DigitValue(s[Len(s)])

\* strconv.ParseFloat(s, 64) on the strings the model feeds it: a non-empty
\* run of digits parses to its value, anything else is a syntax error.
ParseFloat(s) ==
    IF s # << >> /\ \A i \in 1..Len(s) : IsDigit(s[i])
    THEN [v |-> DecimalValue(s), err |-> NoErr]
    ELSE [v |-> 0, err |-> "strconv.ParseFloat: invalid syntax"]

\* strings.ToUpper, character by character.
UpperChar(c) == IF c = "a" THEN "A" ELSE IF c = "b" THEN "B" ELSE IF c = "c" THEN "C" ELSE c

ToUpper(s) == [i \in 1..Len(s) |-> UpperChar(s[i])]

RECURSIVE Split(_, _)
\* strings.Split(s, sep), sep one character: the pieces between the
\* separators, so always at least one piece (Split("", ",") is [""]).
Split(s, sep) ==
    IF \A i \in 1..Len(s) : s[i] # sep THEN <<s>>
    ELSE LET i == CHOOSE k \in 1..Len(s) :
                      s[k] = sep /\ \A j \in 1..(k - 1) : s[j] # sep
         IN  <<SubSeq(s, 1, i - 1)>> \o Split(SubSeq(s, i + 1, Len(s)), sep)

\* ---------------------------------------------------------------- requests
\* A URL query is its sequence of key=value parameters.
Param(k, v) == [key |-> k, value |-> v]

QueryNone == << >>
QueryOther == <<Param("format", <<"x">>)>>
QueryEmpty == <<Param("symbols", << >>)>>
QueryABA == <<Param("symbols", <<"A", ",", "B">>), Param("symbols", <<"A">>)>>
QueryLower == <<Param("symbols", <<"a">>)>>

Queries == {QueryNone, QueryOther, QueryEmpty, QueryABA, QueryLower}

\* url.Values[key]: the values of the parameters named key, in order, and
\* whether there is any.
RECURSIVE QueryGet(_, _)
QueryGet(q, k) ==
    IF q = << >> THEN [values |-> << >>, ok |-> FALSE]
    ELSE LET rest == QueryGet(Tail(q), k)
         IN  IF Head(q).key = k
             THEN [values |-> <<Head(q).value>> \o rest.values, ok |-> TRUE]
             ELSE rest

RECURSIVE AppendSplits(_, _)
\* for _, qvalue := range qvalues { symbols = append(symbols, Split(qvalue, ",")...) }
AppendSplits(symbols, qvalues) ==
    IF qvalues = << >> THEN symbols
    ELSE AppendSplits(symbols \o Split(Head(qvalues), ","), Tail(qvalues))

\* newCollector without the check of ok: an absent parameter is an empty list.
newCollectorUnchecked(myurl) ==
    [c |-> [symbols |-> AppendSplits(<< >>, QueryGet(myurl, "symbols").values)],
     err |-> NoErr]

newCollector(myurl) ==
    LET got == QueryGet(myurl, "symbols")
    IN  IF ~got.ok
        THEN [c |-> [symbols |-> << >>], err |-> "missing symbols in query"]
        ELSE [c |-> [symbols |-> AppendSplits(<< >>, got.values)], err |-> NoErr]

\* Every symbol a request of Queries can name: the keys of the cache.
Keys ==
    UNION {{newCollector(q).c.symbols[i] : i \in 1..Len(newCollector(q).c.symbols)} :
           q \in Queries}

\* --------------------------------------------------------------- providers
\* What the twelvedata endpoint can answer to one GET.
HttpOk(valid, p) == [get |-> "ok", read |-> "ok", json |-> valid, price |-> p]

Responses ==
    { [get |-> "error", read |-> "ok", json |-> FALSE, price |-> << >>],
      HttpOk(TRUE, << >>),
      HttpOk(TRUE, <<"x">>),
      HttpOk(TRUE, <<"3", "0">>) }

\* json.Unmarshal(body, &data) with data a price{Price string}: a body that is
\* no JSON is an error, a JSON object without "price" leaves Price "".
Unmarshal(resp) ==
    IF resp.json THEN [data |-> [Price |-> resp.price], err |-> NoErr]
    ELSE [data |-> [Price |-> << >>], err |-> "invalid character"]

\* twelvedata.Quote once the endpoint has answered resp.
Quote(resp) ==
    IF resp.get # "ok" THEN [v |-> 0, err |-> "http.Get failed"]
    ELSE IF resp.read # "ok" THEN [v |-> 0, err |-> "io.ReadAll failed"]
    ELSE LET u == Unmarshal(resp)
         IN  IF u.err # NoErr THEN [v |-> 0, err |-> u.err]
             ELSE IF u.data.Price = << >> THEN [v |-> 0, err |-> u.err]
             ELSE LET f == ParseFloat(u.data.Price)
                  IN  IF f.err # NoErr THEN [v |-> 0, err |-> f.err]
                      ELSE [v |-> f.v, err |-> NoErr]

\* stonks.Quote(symbol) -> (price, err): a price or a provider error.
StonksResults ==
    { [v |-> 10, err |-> NoErr], [v |-> 30, err |-> NoErr],
      [v |-> 0, err |-> "stonks: provider error"] }

\* -------------------------------------------------------------------- state
VARIABLES
    flagEnableTwelvedata,   \* flag: the twelvedata provider is selected
    flagTwelvedataApiKey,   \* flag: its credential, "" when unset
    queryCount,             \* quotes_exporter_queries_total
    errorCount,             \* quotes_exporter_failed_queries_total
    queryDuration,          \* observations made on the duration summary
    cache,                  \* cache.Storage: key -> item
    group,                  \* cache.group: keys with a call in flight
    now,                    \* the clock, minutes
    pc,                     \* where each handler goroutine is
    req,                    \* the query of the request it serves
    symbols,                \* collector.symbols
    idx,                    \* position of the range loop in symbols
    start,                  \* start := time.Now()
    ret,                    \* qret, err, cached := cache.Memoize(...)
    ch,                     \* metrics sent on ch by this Collect
    \* history, read by the properties only
    scrapes,                \* requests received
    completed,              \* Collect invocations that have returned
    upstreamCalls,          \* provider calls issued, per symbol sent upstream
    lastSet,                \* last fetch stored per key: value and time
    lastErr,                \* per key, when its last fetch failed: error and time
    seenSet,                \* lastSet of the key when the resolution started
    seenErr,                \* lastErr of the key when the resolution started
    called,                 \* this resolution issued a provider call
    joined,                 \* this resolution waited on another's call
    resp,                   \* the answer its provider call got
    resolved,               \* the resolutions of this Collect, in order
    errInc,                 \* errorCount.Inc() calls of this Collect
    durInc                  \* queryDuration.Observe() calls of this Collect

flags == <<flagEnableTwelvedata, flagTwelvedataApiKey>>
metrics == <<queryCount, errorCount, queryDuration>>
memo == <<cache, group>>
locals == <<req, symbols, idx, start, ret, ch>>
fetches == <<upstreamCalls, lastSet, lastErr>>
history == <<seenSet, seenErr, called, joined, resp, resolved, errInc, durInc>>
vars == <<flags, metrics, memo, now, pc, locals, scrapes, completed, fetches, history>>

NoItem == [found |-> FALSE]
Never == [some |-> FALSE]
NoRet == [qret |-> NilValue, err |-> NoErr, cached |-> FALSE]
\* resp of a resolution that got no answer of its own, and of one answered
\* by stonks.
NoResp == [get |-> "none", read |-> "none", json |-> FALSE, price |-> << >>]
StonksResp == [get |-> "stonks", read |-> "stonks", json |-> FALSE, price |-> << >>]

UpstreamSymbols == Keys \cup {ToUpper(k) : k \in Keys}

Init ==
    /\ flagEnableTwelvedata \in BOOLEAN
    /\ flagTwelvedataApiKey \in {"", "key"}
    \* the key is read only with twelvedata enabled
    /\ flagEnableTwelvedata \/ flagTwelvedataApiKey = ""
    /\ queryCount = 0
    /\ errorCount = 0
    /\ queryDuration = 0
    /\ cache = [k \in Keys |-> NoItem]
    /\ group = {}
    /\ now = 0
    /\ pc = [p \in Handlers |-> "idle"]
    /\ req = [p \in Handlers |-> << >>]
    /\ symbols = [p \in Handlers |-> << >>]
    /\ idx = [p \in Handlers |-> 0]
    /\ start = [p \in Handlers |-> 0]
    /\ ret = [p \in Handlers |-> NoRet]
    /\ ch = [p \in Handlers |-> << >>]
    /\ scrapes = 0
    /\ completed = 0
    /\ upstreamCalls = [k \in UpstreamSymbols |-> 0]
    /\ lastSet = [k \in Keys |-> Never]
    /\ lastErr = [k \in Keys |-> Never]
    /\ seenSet = [p \in Handlers |-> Never]
    /\ seenErr = [p \in Handlers |-> Never]
    /\ called = [p \in Handlers |-> FALSE]
    /\ joined = [p \in Handlers |-> FALSE]
    /\ resp = [p \in Handlers |-> NoResp]
    /\ resolved = [p \in Handlers |-> << >>]
    /\ errInc = [p \in Handlers |-> 0]
    /\ durInc = [p \in Handlers |-> 0]

\* The symbol the range loop of p is at.
symbol(p) == symbols[p][idx[p]]

\* ------------------------------------------------------------ go-memoize
\* Storage.Get with an entry expiring one tick early, at its Expiration.
StorageGetEarly(k) ==
    LET item == cache[k]
    IN  IF ~item.found THEN [value |-> NilValue, found |-> FALSE]
        ELSE IF item.Expiration > 0 /\ now >= item.Expiration
             THEN [value |-> NilValue, found |-> FALSE]
             ELSE [value |-> item.Object, found |-> TRUE]

\* Storage.Get that never expires an item.
StorageGetForever(k) ==
    LET item == cache[k]
    IN  IF ~item.found THEN [value |-> NilValue, found |-> FALSE]
        ELSE [value |-> item.Object, found |-> TRUE]

\* Storage.Get(key): the stored object, unless there is none or it expired.
StorageGet(k) ==
    LET item == cache[k]
    IN  IF ~item.found THEN [value |-> NilValue, found |-> FALSE]
        ELSE IF item.Expiration > 0 /\ now > item.Expiration
             THEN [value |-> NilValue, found |-> FALSE]
             ELSE [value |-> item.Object, found |-> TRUE]

\* Storage.Set(key, data, cache.DefaultExpiration)
StorageSet(k, data) ==
    [cache EXCEPT ![k] =
        [found |-> TRUE, Object |-> data, Expiration |-> now + DefaultExpiration]]

\* The result stored whatever innerErr is.
StoreResultAlways(k, data, innerErr) == StorageSet(k, data)

\* The function Memoize hands to group.Do, once fn has returned (data,
\* innerErr): the result is stored only when innerErr is nil.
StoreResult(k, data, innerErr) ==
    IF innerErr = NoErr THEN StorageSet(k, data) ELSE cache

\* ---------------------------------------------------------------- handler
\* A scrape request arrives and is served by the first idle handler
\* goroutine, which builds the collector from the URL.
Request(p, q) ==
    /\ pc[p] = "idle"
    /\ \A o \in Handlers : pc[o] = "idle" => Rank(p) <= Rank(o)
    /\ scrapes < MaxScrapes
    /\ scrapes' = scrapes + 1
    /\ req' = [req EXCEPT ![p] = q]
    /\ LET new == newCollector(q)
       IN  IF new.err # NoErr
           THEN /\ pc' = [pc EXCEPT ![p] = "badreq"]
                /\ UNCHANGED symbols
           ELSE /\ pc' = [pc EXCEPT ![p] = "collect"]
                /\ symbols' = [symbols EXCEPT ![p] = new.c.symbols]
    /\ UNCHANGED <<flags, metrics, memo, now, idx, start, ret, ch,
                   completed, fetches, history>>

\* newCollector failed: the request is answered with the error, and no
\* collector is registered or gathered.
RespondError(p) ==
    /\ pc[p] = "badreq"
    /\ pc' = [pc EXCEPT ![p] = "idle"]
    /\ req' = [req EXCEPT ![p] = << >>]
    /\ UNCHANGED <<flags, metrics, memo, now, symbols, idx, start, ret, ch,
                   scrapes, completed, fetches, history>>

\* The gathered metrics are written to the response.
Respond(p) ==
    /\ pc[p] = "done"
    /\ pc' = [pc EXCEPT ![p] = "idle"]
    /\ req' = [req EXCEPT ![p] = << >>]
    /\ symbols' = [symbols EXCEPT ![p] = << >>]
    /\ idx' = [idx EXCEPT ![p] = 0]
    /\ ch' = [ch EXCEPT ![p] = << >>]
    /\ resolved' = [resolved EXCEPT ![p] = << >>]
    /\ errInc' = [errInc EXCEPT ![p] = 0]
    /\ durInc' = [durInc EXCEPT ![p] = 0]
    /\ UNCHANGED <<flags, metrics, memo, now, start, ret, scrapes, completed,
                   fetches, seenSet, seenErr, called, joined, resp>>

\* ---------------------------------------------------------------- Collect
\* Collect entered without counting the query.
CollectBeginNoInc(p) ==
    /\ pc[p] = "collect"
    /\ idx' = [idx EXCEPT ![p] = 1]
    /\ pc' = [pc EXCEPT ![p] = "loop"]
    /\ UNCHANGED <<flags, metrics, memo, now, req, symbols, start,
                   ret, ch, scrapes, completed, fetches, history>>

\* Collect is entered: queryCount.Inc(), then the range loop starts.
CollectBegin(p) ==
    /\ pc[p] = "collect"
    /\ queryCount' = queryCount + 1
    /\ idx' = [idx EXCEPT ![p] = 1]
    /\ pc' = [pc EXCEPT ![p] = "loop"]
    /\ UNCHANGED <<flags, errorCount, queryDuration, memo, now, req, symbols, start,
                   ret, ch, scrapes, completed, fetches, history>>

\* The range loop is over: Collect returns.
CollectEnd(p) ==
    /\ pc[p] = "loop"
    /\ idx[p] > Len(symbols[p])
    /\ pc' = [pc EXCEPT ![p] = "done"]
    /\ completed' = completed + 1
    /\ UNCHANGED <<flags, metrics, memo, now, locals, scrapes, fetches, history>>

\* start := time.Now(), and Memoize's first step, Storage.Get(key): a hit
\* returns (value, nil, true), a miss goes on to group.Do.
MemoizeGet(p) ==
    /\ pc[p] = "loop"
    /\ idx[p] <= Len(symbols[p])
    /\ start' = [start EXCEPT ![p] = now]
    /\ seenSet' = [seenSet EXCEPT ![p] = lastSet[symbol(p)]]
    /\ seenErr' = [seenErr EXCEPT ![p] = lastErr[symbol(p)]]
    /\ LET got == StorageGet(symbol(p))
       IN  IF got.found
           THEN /\ ret' = [ret EXCEPT ![p] =
                              [qret |-> got.value, err |-> NoErr, cached |-> TRUE]]
                /\ pc' = [pc EXCEPT ![p] = "observe"]
           ELSE /\ pc' = [pc EXCEPT ![p] = "do"]
                /\ UNCHANGED ret
    /\ UNCHANGED <<flags, metrics, memo, now, req, symbols, idx, ch, scrapes,
                   completed, fetches, called, joined, resp, resolved, errInc, durInc>>

\* The end of a call that wakes nobody: only the caller gets the result.
DoReturnNoWake(p, data, innerErr, answer) ==
    /\ cache' = StoreResult(symbol(p), data, innerErr)
    /\ group' = group \ {symbol(p)}
    /\ resp' = [resp EXCEPT ![p] = answer]
    /\ IF innerErr = NoErr
       THEN /\ lastSet' = [lastSet EXCEPT ![symbol(p)] =
                              [some |-> TRUE, v |-> data, at |-> now]]
            /\ lastErr' = [lastErr EXCEPT ![symbol(p)] = Never]
       ELSE /\ lastErr' = [lastErr EXCEPT ![symbol(p)] =
                              [some |-> TRUE, err |-> innerErr, at |-> now]]
            /\ UNCHANGED lastSet
    /\ ret' = [ret EXCEPT ![p] = [qret |-> data, err |-> innerErr, cached |-> FALSE]]
    /\ pc' = [pc EXCEPT ![p] = "observe"]

\* fn has returned (data, innerErr) inside group.Do: the result is stored
\* unless it is an error, the call ends and the key leaves the group, and the
\* caller and everyone waiting on the call get (data, innerErr), which
\* Memoize returns with cached = false.
DoReturn(p, data, innerErr, answer) ==
    /\ cache' = StoreResult(symbol(p), data, innerErr)
    /\ group' = group \ {symbol(p)}
    /\ resp' = [resp EXCEPT ![p] = answer]
    /\ IF innerErr = NoErr
       THEN /\ lastSet' = [lastSet EXCEPT ![symbol(p)] =
                              [some |-> TRUE, v |-> data, at |-> now]]
            /\ lastErr' = [lastErr EXCEPT ![symbol(p)] = Never]
       ELSE /\ lastErr' = [lastErr EXCEPT ![symbol(p)] =
                              [some |-> TRUE, err |-> innerErr, at |-> now]]
            /\ UNCHANGED lastSet
    /\ LET shared == {w \in Handlers : pc[w] = "wait" /\ symbol(w) = symbol(p)} \cup {p}
           out == [qret |-> data, err |-> innerErr, cached |-> FALSE]
       IN  /\ ret' = [w \in Handlers |-> IF w \in shared THEN out ELSE ret[w]]
           /\ pc' = [w \in Handlers |-> IF w \in shared THEN "observe" ELSE pc[w]]

\* cachedFetcher starts: with twelvedata enabled and no API key it returns
\* (nil, nil) at once; otherwise it calls the selected provider.
cachedFetcher(p) ==
    IF flagEnableTwelvedata /\ flagTwelvedataApiKey = ""
    THEN /\ DoReturn(p, NilValue, NoErr, NoResp)
         /\ UNCHANGED <<upstreamCalls, called>>
    ELSE /\ LET sent == IF flagEnableTwelvedata THEN ToUpper(symbol(p)) ELSE symbol(p)
            IN  upstreamCalls' = [upstreamCalls EXCEPT ![sent] = @ + 1]
         /\ called' = [called EXCEPT ![p] = TRUE]
         /\ group' = group \cup {symbol(p)}
         /\ pc' = [pc EXCEPT ![p] = "upstream"]
         /\ UNCHANGED <<cache, ret, resp, lastSet, lastErr>>

\* group.Do that never joins a call in flight: every caller runs the function.
GroupDoNoJoin(p) ==
    /\ pc[p] = "do"
    /\ cachedFetcher(p)
    /\ UNCHANGED joined
    /\ UNCHANGED <<flags, metrics, now, req, symbols, idx, start, ch, scrapes,
                   completed, seenSet, seenErr, resolved, errInc, durInc>>

\* group.Do behind one lock for all keys: a caller waits while any call is
\* in flight.
GroupDoGlobal(p) ==
    /\ pc[p] = "do"
    /\ IF group # {}
       THEN /\ pc' = [pc EXCEPT ![p] = "wait"]
            /\ joined' = [joined EXCEPT ![p] = TRUE]
            /\ UNCHANGED <<group, cache, ret, resp, fetches, called>>
       ELSE /\ cachedFetcher(p)
            /\ UNCHANGED joined
    /\ UNCHANGED <<flags, metrics, now, req, symbols, idx, start, ch, scrapes,
                   completed, seenSet, seenErr, resolved, errInc, durInc>>

\* group.Do(key, ...): with a call for the key in flight the caller waits for
\* it, otherwise it registers its own call and runs the function.
GroupDo(p) ==
    /\ pc[p] = "do"
    /\ IF symbol(p) \in group
       THEN /\ pc' = [pc EXCEPT ![p] = "wait"]
            /\ joined' = [joined EXCEPT ![p] = TRUE]
            /\ UNCHANGED <<group, cache, ret, resp, fetches, called>>
       ELSE /\ cachedFetcher(p)
            /\ UNCHANGED joined
    /\ UNCHANGED <<flags, metrics, now, req, symbols, idx, start, ch, scrapes,
                   completed, seenSet, seenErr, resolved, errInc, durInc>>

\* The twelvedata endpoint answers: twelvedata.Quote returns, and so does fn.
TwelvedataReturn(p, answer) ==
    /\ pc[p] = "upstream"
    /\ flagEnableTwelvedata
    /\ LET q == Quote(answer)
       IN  DoReturn(p, Float(q.v), q.err, answer)
    /\ UNCHANGED <<flags, metrics, now, req, symbols, idx, start, ch, scrapes,
                   completed, upstreamCalls, seenSet, seenErr, called, joined,
                   resolved, errInc, durInc>>

\* stonks.Quote returns, and so does fn.
StonksReturn(p, q) ==
    /\ pc[p] = "upstream"
    /\ ~flagEnableTwelvedata
    /\ DoReturn(p, Float(q.v), q.err, StonksResp)
    /\ UNCHANGED <<flags, metrics, now, req, symbols, idx, start, ch, scrapes,
                   completed, upstreamCalls, seenSet, seenErr, called, joined,
                   resolved, errInc, durInc>>

\* Metric with the value dropped: every sample reads 0.
MetricZero(sym, price) == [symbol |-> sym, name |-> sym, price |-> 0]

\* What Collect sends on ch for a price.
Metric(sym, price) == [symbol |-> sym, name |-> sym, price |-> price]

\* Collect with continue in place of return: a failed resolution counts an
\* error and the loop goes on with the next symbol.
ObserveContinue(p) ==
    /\ pc[p] = "observe"
    /\ queryDuration' = queryDuration + 1
    /\ durInc' = [durInc EXCEPT ![p] = @ + 1]
    /\ resolved' = [resolved EXCEPT ![p] = Append(@,
           [symbol |-> symbol(p), qret |-> ret[p].qret, err |-> ret[p].err,
            cached |-> ret[p].cached, resp |-> resp[p]])]
    /\ IF ret[p].err # NoErr \/ ret[p].qret.t # "float64"
       THEN /\ errorCount' = errorCount + 1
            /\ errInc' = [errInc EXCEPT ![p] = @ + 1]
            /\ UNCHANGED ch
       ELSE /\ ch' = [ch EXCEPT ![p] = Append(@, Metric(symbol(p), ret[p].qret.v))]
            /\ UNCHANGED <<errorCount, errInc>>
    /\ idx' = [idx EXCEPT ![p] = @ + 1]
    /\ pc' = [pc EXCEPT ![p] = "loop"]
    /\ ret' = [ret EXCEPT ![p] = NoRet]
    /\ start' = [start EXCEPT ![p] = 0]
    /\ seenSet' = [seenSet EXCEPT ![p] = Never]
    /\ seenErr' = [seenErr EXCEPT ![p] = Never]
    /\ called' = [called EXCEPT ![p] = FALSE]
    /\ joined' = [joined EXCEPT ![p] = FALSE]
    /\ resp' = [resp EXCEPT ![p] = NoResp]
    /\ UNCHANGED <<flags, queryCount, memo, now, req, symbols, scrapes, fetches,
                   completed>>

\* Memoize has returned: the duration is observed, then an error or a value
\* that is no float64 counts an error and returns from Collect; a price is
\* sent on ch and the loop goes on.
Observe(p) ==
    /\ pc[p] = "observe"
    /\ queryDuration' = queryDuration + 1
    /\ durInc' = [durInc EXCEPT ![p] = @ + 1]
    /\ resolved' = [resolved EXCEPT ![p] = Append(@,
           [symbol |-> symbol(p), qret |-> ret[p].qret, err |-> ret[p].err,
            cached |-> ret[p].cached, resp |-> resp[p]])]
    /\ IF ret[p].err # NoErr \/ ret[p].qret.t # "float64"
       THEN /\ errorCount' = errorCount + 1
            /\ errInc' = [errInc EXCEPT ![p] = @ + 1]
            /\ pc' = [pc EXCEPT ![p] = "done"]
            /\ completed' = completed + 1
            /\ UNCHANGED <<ch, idx>>
       ELSE /\ ch' = [ch EXCEPT ![p] = Append(@, Metric(symbol(p), ret[p].qret.v))]
            /\ idx' = [idx EXCEPT ![p] = @ + 1]
            /\ pc' = [pc EXCEPT ![p] = "loop"]
            /\ UNCHANGED <<errorCount, errInc, completed>>
    /\ ret' = [ret EXCEPT ![p] = NoRet]
    /\ start' = [start EXCEPT ![p] = 0]
    /\ seenSet' = [seenSet EXCEPT ![p] = Never]
    /\ seenErr' = [seenErr EXCEPT ![p] = Never]
    /\ called' = [called EXCEPT ![p] = FALSE]
    /\ joined' = [joined EXCEPT ![p] = FALSE]
    /\ resp' = [resp EXCEPT ![p] = NoResp]
    /\ UNCHANGED <<flags, queryCount, memo, now, req, symbols, scrapes, fetches>>

\* Time passes.
Tick(d) ==
    /\ now + d <= MaxTime
    /\ now' = now + d
    /\ UNCHANGED <<flags, metrics, memo, pc, locals, scrapes, completed, fetches, history>>

Next ==
    \/ \E p \in Handlers, q \in Queries : Request(p, q)
    \/ \E p \in Handlers : RespondError(p)
    \/ \E p \in Handlers : Respond(p)
    \/ \E p \in Handlers : CollectBegin(p)
    \/ \E p \in Handlers : CollectEnd(p)
    \/ \E p \in Handlers : MemoizeGet(p)
    \/ \E p \in Handlers : GroupDo(p)
    \/ \E p \in Handlers, answer \in Responses : TwelvedataReturn(p, answer)
    \/ \E p \in Handlers, q \in StonksResults : StonksReturn(p, q)
    \/ \E p \in Handlers : Observe(p)
    \/ \E d \in TickSteps : Tick(d)

Spec == Init /\ [][Next]_vars

\* ---------------------------------------------------------------- fairness
\* The provider answers the call of q, whichever provider is selected.
ProviderReturn(q) ==
    \/ \E answer \in Responses : TwelvedataReturn(q, answer)
    \/ \E r \in StonksResults : StonksReturn(q, r)

\* A step of the goroutine that runs Collect for p.
CollectStep(p) ==
    \/ CollectBegin(p)
    \/ CollectEnd(p)
    \/ MemoizeGet(p)
    \/ GroupDo(p)
    \/ Observe(p)

\* Every goroutine inside Collect is scheduled again, and every provider call
\* returns.
Fairness ==
    \A p \in Handlers : WF_vars(CollectStep(p)) /\ WF_vars(ProviderReturn(p))

\* Time passes between scrapes. No step of Collect waits for the clock, which
\* only decides what Storage.Get finds; with the clock moving between scrapes
\* a resolution still finds its key absent, stored and fresh, or expired.
TickIdle(d) ==
    /\ \A p \in Handlers : pc[p] = "idle"
    /\ Tick(d)

FairNext ==
    \/ \E p \in Handlers, q \in Queries : Request(p, q)
    \/ \E p \in Handlers : RespondError(p)
    \/ \E p \in Handlers : Respond(p)
    \/ \E p \in Handlers : CollectStep(p)
    \/ \E p \in Handlers : ProviderReturn(p)
    \/ \E d \in TickSteps : TickIdle(d)

\* The program under fair scheduling, for the liveness properties.
FairSpec == Init /\ [][FairNext]_vars /\ Fairness

\* ------------------------------------------------------------- properties
\* A resolution succeeded: no error, and a float64.
Succeeded(r) == r.err = NoErr /\ r.qret.t = "float64"

\* The key has a stored price that a resolution starting now would return.
FreshPrice(k) ==
    /\ cache[k].found
    /\ now <= cache[k].Expiration
    /\ cache[k].Object.t = "float64"

\* C1: per-symbol isolation. When a Collect has returned and the resolution
\* of a symbol A of its list returned an error, every different symbol B of
\* the list whose resolution succeeds (a fresh price is stored for it) has
\* its sample on ch, and the Collect counted exactly one error.
C1_Isolation ==
    \A p \in Handlers :
        pc[p] = "done" =>
            \A i \in DOMAIN resolved[p] :
                resolved[p][i].err # NoErr =>
                    /\ errInc[p] = 1
                    /\ \A j \in DOMAIN symbols[p] :
                           (symbols[p][j] # symbols[p][i] /\ FreshPrice(symbols[p][j]))
                               => \E n \in DOMAIN ch[p] : ch[p][n].symbol = symbols[p][j]

RECURSIVE SamplesOf(_)
\* The samples a sequence of resolutions calls for: one per success, in order.
SamplesOf(rs) ==
    IF rs = << >> THEN << >>
    ELSE LET r == Head(rs)
         IN  (IF Succeeded(r)
              THEN <<[symbol |-> r.symbol, name |-> r.symbol, price |-> r.qret.v]>>
              ELSE << >>) \o SamplesOf(Tail(rs))

\* C2: a Collect emits between 0 and |S| samples; the i-th resolution it made
\* is of the i-th symbol of S, and the samples on ch are exactly those of its
\* resolutions that returned no error and a float64, each with that price and
\* symbol = name = the symbol.
C2_Samples ==
    \A p \in Handlers :
        /\ Len(ch[p]) <= Len(symbols[p])
        /\ Len(resolved[p]) <= Len(symbols[p])
        /\ \A i \in DOMAIN resolved[p] : resolved[p][i].symbol = symbols[p][i]
        /\ ch[p] = SamplesOf(resolved[p])

\* A returned Collect with a sample and a failed resolution.
C2_Witness ==
    \E p \in Handlers :
        /\ pc[p] = "done"
        /\ Len(ch[p]) >= 1
        /\ Len(resolved[p]) > Len(ch[p])

\* p is inside a Memoize call that missed the cache.
Missed(p) ==
    \/ pc[p] \in {"do", "wait", "upstream"}
    \/ pc[p] = "observe" /\ ~ret[p].cached

\* p is inside a Memoize call, or has its result and has not used it yet.
Resolving(p) == pc[p] \in {"do", "wait", "upstream", "observe"}

\* When the resolution p is in started, a price was stored for its symbol no
\* more than 10 minutes before.
StartedFresh(p) ==
    /\ seenSet[p].some
    /\ seenSet[p].v.t = "float64"
    /\ start[p] <= seenSet[p].at + 10

C4_Coalescing ==
    \A p, q \in Handlers :
        ( /\ p # q
          /\ Missed(p) /\ Missed(q)
          /\ symbol(p) = symbol(q)
          /\ ~seenSet[p].some /\ ~seenErr[p].some
          /\ ~seenSet[q].some /\ ~seenErr[q].some )
        => /\ ~(called[p] /\ called[q])
           /\ (pc[p] = "observe" /\ pc[q] = "observe") => ret[p] = ret[q]

\* When the resolution p is in started, the last fetch of its symbol had
\* failed, no more than 10 minutes before.
StartedAfterError(p) ==
    /\ seenErr[p].some
    /\ start[p] <= seenErr[p].at + 10

C6_CredentialMissing ==
    (flagEnableTwelvedata /\ flagTwelvedataApiKey = "") =>
        /\ \A k \in UpstreamSymbols : upstreamCalls[k] = 0
        /\ \A p \in Handlers :
               pc[p] = "done" =>
                   /\ Len(resolved[p]) = Len(symbols[p])
                   /\ \A i \in DOMAIN resolved[p] : resolved[p][i].err # NoErr
                   /\ ch[p] = << >>
                   /\ errInc[p] = Len(symbols[p])

\* The endpoint answered with JSON that has no price, or one that is no number.
InvalidData(answer) ==
    /\ answer.get = "ok" /\ answer.read = "ok" /\ answer.json
    /\ \/ answer.price = << >>
       \/ \E i \in DOMAIN answer.price :
              answer.price[i] \notin {"0", "1", "2", "3", "4", "5", "6", "7", "8", "9"}

\* C7: invalid data. A provider call answered with JSON that carries no
\* price, or a non-numeric one, returns an error: the resolution fails, the
\* Collect counts an error and sends no sample for it.
C7_InvalidData ==
    \A p \in Handlers :
        /\ (pc[p] = "observe" /\ InvalidData(resp[p])) => ret[p].err # NoErr
        /\ \A i \in DOMAIN resolved[p] :
               InvalidData(resolved[p][i].resp) =>
                   /\ resolved[p][i].err # NoErr
                   /\ errInc[p] >= 1
                   /\ Len(ch[p]) < i

\* The query has no parameter named symbols.
NoSymbolsParam(q) == \A i \in DOMAIN q : q[i].key # "symbols"

\* C8: a request without a symbols parameter fails construction, and only
\* such a request does: the step that receives it changes no counter, no
\* duration, no cache entry and makes no provider call; the handler then only
\* answers the error, again changing none of them, and sends no sample.
C8_MissingParameter ==
    [][\A p \in Handlers :
          /\ (pc[p] = "idle" /\ pc'[p] # "idle") =>
                 /\ (pc'[p] = "badreq") <=> NoSymbolsParam(req'[p])
                 /\ pc'[p] = "badreq" =>
                        /\ UNCHANGED <<metrics, memo, fetches, completed>>
                        /\ ch'[p] = << >>
          /\ (pc[p] = "badreq" /\ pc'[p] # "badreq") =>
                 /\ pc'[p] = "idle"
                 /\ UNCHANGED <<metrics, memo, fetches, completed>>
                 /\ ch'[p] = << >>
      ]_vars

\* A request with another parameter, but none named symbols, was refused.
C8_Witness ==
    \E p \in Handlers :
        /\ pc[p] = "badreq"
        /\ req[p] # << >>
        /\ NoSymbolsParam(req[p])

\* C9: a present but empty parameter. While a handler serves the request
\* symbols= its collector has an empty symbol list, and it resolves nothing,
\* counts no error and sends no sample.
C9_EmptyParameter ==
    \A p \in Handlers :
        (pc[p] # "idle" /\ req[p] = <<[key |-> "symbols", value |-> << >>]>>) =>
            /\ pc[p] \in {"collect", "loop", "done"}
            /\ symbols[p] = << >>
            /\ resolved[p] = << >>
            /\ errInc[p] = 0
            /\ ch[p] = << >>

\* C10: the query counter equals the number of Collect invocations that
\* have returned, in every state.
C10_QueryCount == queryCount = completed


\* The handlers whose provider call for key k is in flight.
InFlight(k) == {l \in Handlers : pc[l] = "upstream" /\ symbol(l) = k}

SameSymbol(j, k) == ToUpper(j) = ToUpper(k)

\* A price of key k was stored before the resolution p is in started, and was
\* within its 10 minutes at that start.
StoredBeforeStart(k, p) ==
    /\ cache[k].found
    /\ cache[k].Object.t = "float64"
    /\ cache[k].Expiration - DefaultExpiration < start[p]
    /\ start[p] <= cache[k].Expiration

\* C12: symbols that differ only in letter case are one symbol for caching:
\* they have the same cache entry, a resolution of one that starts within 10
\* minutes of a stored price of the other is a cache hit, and no two provider
\* calls are in flight for them at once.
C12_CaseInsensitive ==
    /\ \A j, k \in Keys : SameSymbol(j, k) => cache[j] = cache[k]
    /\ \A p \in Handlers :
           (Resolving(p)
            /\ \E k \in Keys : SameSymbol(k, symbol(p)) /\ StoredBeforeStart(k, p))
               => (pc[p] = "observe" /\ ret[p].cached)
    /\ \A p, q \in Handlers :
           (p # q /\ pc[p] = "upstream" /\ pc[q] = "upstream")
               => ~SameSymbol(symbol(p), symbol(q))


\* C13: resolutions of different symbols do not block one another. While a
\* provider call of p is in flight, a resolution q of a different symbol with
\* no call of its own symbol in flight can take each of its steps with p's
\* call still in flight: group.Do starts q's own call instead of waiting,
\* the provider can answer q, and q can use the result.
C13_Independent ==
    \A p, q \in Handlers :
        (p # q /\ pc[p] = "upstream" /\ pc[q] \in {"do", "upstream", "observe"}
         /\ symbol(q) # symbol(p)
         /\ (pc[q] = "do" => InFlight(symbol(q)) = {})) =>
            /\ pc[q] = "do" =>
                   ENABLED (GroupDo(q) /\ pc'[q] # "wait" /\ pc'[p] = "upstream")
            /\ pc[q] = "upstream" =>
                   ENABLED (ProviderReturn(q) /\ pc'[q] = "observe"
                            /\ pc'[p] = "upstream")
            /\ pc[q] = "observe" =>
                   ENABLED (Observe(q) /\ pc'[p] = "upstream")

\* A resolution that made its own call has the result while the call of
\* another symbol, in flight since before, still is.
C13_Witness ==
    \E p, q \in Handlers :
        /\ pc[p] = "upstream"
        /\ pc[q] = "observe"
        /\ called[q]
        /\ symbol(q) # symbol(p)
        /\ start[p] <= start[q]


\* The symbol the selected provider is asked for when key k is fetched.
Sent(k) == IF flagEnableTwelvedata THEN ToUpper(k) ELSE k

\* C14: a resolution of X returns fromCache = true only if a provider call
\* for X was made and its result stored no more than 10 minutes before the
\* resolution started, and the value returned is the one stored last; and a
\* cache entry of X exists only when a provider call for X was made.
C14_HitProvenance ==
    /\ \A p \in Handlers :
           (pc[p] = "observe" /\ ret[p].cached) =>
               /\ seenSet[p].some
               /\ start[p] <= seenSet[p].at + DefaultExpiration
               /\ ret[p].qret = seenSet[p].v
               /\ upstreamCalls[Sent(symbol(p))] >= 1
    /\ \A k \in Keys : cache[k].found => upstreamCalls[Sent(k)] >= 1


\* When the resolution p is in started, what was stored last for its symbol
\* was stored more than 10 minutes before.
ExpiredAtStart(p) ==
    /\ seenSet[p].some
    /\ start[p] > seenSet[p].at + DefaultExpiration

\* Something was stored for the symbol of p at or after p's start.
StoredSinceStart(p) ==
    /\ cache[symbol(p)].found
    /\ cache[symbol(p)].Expiration >= start[p] + DefaultExpiration
    /\ lastSet[symbol(p)].at >= start[p]

Occurrences(list, x) == {i \in DOMAIN list : list[i] = x}

\* The positions of the samples of symbol x on the ch of p.
SamplesFor(p, x) == {i \in DOMAIN ch[p] : ch[p][i].symbol = x}

\* The positions of the resolutions of symbol x among those p has made.
ResolutionsOf(p, x) == {i \in DOMAIN resolved[p] : resolved[p][i].symbol = x}

\* C16: the list of a Collect is the in-order concatenation of the sub-lists
\* of the symbols parameters, duplicates kept; and when the Collect has
\* returned, a symbol X that occurs k times in the list and whose resolutions
\* in this Collect all succeeded has k samples on ch, all of one price.
C16_Duplicates ==
    \A p \in Handlers :
        pc[p] = "done" =>
            /\ symbols[p] = newCollector(req[p]).c.symbols
            /\ \A i \in DOMAIN symbols[p] :
                   LET x == symbols[p][i]
                   IN  (/\ ResolutionsOf(p, x) # {}
                        /\ \A j \in ResolutionsOf(p, x) : Succeeded(resolved[p][j])) =>
                           /\ Cardinality(SamplesFor(p, x))
                                  = Cardinality(Occurrences(symbols[p], x))
                           /\ \A m, n \in SamplesFor(p, x) :
                                  ch[p][m].price = ch[p][n].price

\* C17: when a Collect over n symbols has returned, it has recorded n
\* duration observations, one per symbol of its list.
C17_Durations ==
    \A p \in Handlers : pc[p] = "done" => durInc[p] = Len(symbols[p])


\* C19: the error counter never decreases and never exceeds the query
\* counter, and no Collect increments the error counter more than once.
C19_ErrorCount ==
    /\ [](/\ errorCount <= queryCount
          /\ \A p \in Handlers : errInc[p] <= 1)
    /\ [][errorCount' >= errorCount]_vars

\* Every Collect so far has failed: the error counter has caught up with the
\* query counter.
C19_Witness ==
    /\ errorCount = queryCount
    /\ errorCount = MaxScrapes
    /\ \E p \in Handlers : pc[p] = "done" /\ errInc[p] = 1

\* C20: the samples a Collect has emitted are, in order, those of the first
\* symbols of its list; a failed resolution is the last one the Collect
\* makes, everything before it was emitted and the Collect has returned; and
\* a Collect that has returned resolves and emits nothing more.
C20_Prefix ==
    /\ [](\A p \in Handlers :
            /\ Len(ch[p]) <= Len(symbols[p])
            /\ \A n \in DOMAIN ch[p] : ch[p][n].symbol = symbols[p][n]
            /\ \A i \in DOMAIN resolved[p] :
                   ~Succeeded(resolved[p][i]) =>
                       /\ i = Len(resolved[p])
                       /\ Len(ch[p]) = i - 1
                       /\ pc[p] = "done")
    /\ [][\A p \in Handlers :
            pc[p] = "done" =>
                /\ pc'[p] \in {"done", "idle"}
                /\ pc'[p] = "done" => (ch'[p] = ch[p] /\ resolved'[p] = resolved[p])
        ]_vars

\* A Collect over three symbols that returned at the failure of the second,
\* with the sample of the first.
C20_Witness ==
    \E p \in Handlers :
        /\ pc[p] = "done"
        /\ Len(symbols[p]) = 3
        /\ Len(resolved[p]) = 2
        /\ Len(ch[p]) = 1


\* p is inside Collect.
Collecting(p) == pc[p] \in {"collect", "loop", "do", "wait", "upstream", "observe"}

\* C18: with every provider call returning and fair scheduling, every
\* Collect that was entered returns, every resolution that waits on the call
\* of another leaves the wait with a result that is not from the cache, and
\* while a Collect is running some goroutine or provider can take a step.
C18_Liveness ==
    /\ \A p \in Handlers : Collecting(p) ~> (pc[p] = "done")
    /\ \A p \in Handlers :
           (pc[p] = "wait") ~> (pc[p] = "observe" /\ joined[p] /\ ~ret[p].cached)
    /\ []((\E p \in Handlers : Collecting(p)) =>
             ENABLED (\E q \in Handlers : CollectStep(q) \/ ProviderReturn(q)))

\* A resolution that waited has left the wait with the result, and the
\* Collect whose call it waited on has returned.
C18_Witness ==
    \E p, q \in Handlers :
        /\ pc[q] = "done"
        /\ pc[p] = "observe"
        /\ joined[p]
        /\ ~ret[p].cached

====
